---- MODULE Spec2Model ----
(***************************************************************************)
(* Differential-growth engine of dxdy.draw: the mesh (Segments), its       *)
(* spatial index (ZoneMap) and the solver (DifferentialLine, steps).       *)
(*                                                                         *)
(* Representation.                                                         *)
(*  - Coordinates and lengths are fixed-point integers: the real number r  *)
(*    is the integer r * U, where U == SIZE * ONE units make up 1.0 and    *)
(*    ONE units make up the source's ONE (= 1 / SIZE).  A product of two   *)
(*    lengths is divided by U, a quotient of two lengths is kept as a      *)
(*    fraction until the last division.  Comparisons of lengths are made   *)
(*    on squares, which is exact.                                          *)
(*  - An array is a function on 0 .. len-1.  An index outside the array    *)
(*    is a panic (Rust bounds check), recorded in the field `panic` of the *)
(*    mesh; a panicked process takes no further step, and the mesh keeps   *)
(*    the writes made before the panic.                                    *)
(*  - A buffer made by Vec::with_capacity(n) is taken as n addressable     *)
(*    slots (the storage the `simulating realloc` notes of zone_map.rs     *)
(*    stand for).                                                          *)
(*  - Every operator that models a method takes the mesh (or zone map)     *)
(*    before the call and yields the one after it; a method called on a    *)
(*    panicked mesh does nothing.                                          *)
(***************************************************************************)
EXTENDS Integers, Sequences, FiniteSets, TLC

\* ------------------------------------------------------------------ bounds
\* capacity handed to Segments::new (N_MAX of mod.rs, scaled down)
NMax == 4
\* initializer calls per run
MaxSegs == 2
\* optimize_position / steps calls per run
MaxSteps == 1
\* grid constant SIZE of mod.rs, scaled down: ONE = 1 / SIZE
SIZE == 64
\* model units per ONE
ONE == 10
\* slots of ZoneMap.vz the model keeps (SIZE = 1024 of zone_map.rs, scaled
\* down); no capacity handed to Segments::new exceeds it
VzSize == 8
\* capacity handed to Segments::new where split_long_edges is exercised
SplitNMax == 7
\* initial size of a zone list (SIZE = 1024 of zone_map.rs, scaled down so
\* that the lists outgrow it)
ZoneSIZE == 2

\* ------------------------------------------------------- program constants
U == SIZE * ONE
NEAR_L == 2 * ONE
FAR_L == 40 * ONE
STEP == (4 * ONE) \div 10
\* zone_width handed to Segments::new: a third of the square
ZoneWidth == U \div 3

Deleted == -1
Passive == 0
Active == 1

\* ------------------------------------------------------------- arithmetic
\* f64 -> i64 cast of the real x / U: truncation toward zero
AsI64(x) == IF x >= 0 THEN x \div U ELSE -((-x) \div U)

\* f64 division a / b of integers, truncated toward zero (b > 0)
Quot(a, b) == IF a >= 0 THEN a \div b ELSE -((-a) \div b)

\* let a = v in F(a), with v computed once
Let(v, F(_)) == CHOOSE r \in { F(a) : a \in { v } } : TRUE

Max2(a, b) == IF a >= b THEN a ELSE b
Min2(a, b) == IF a <= b THEN a ELSE b

RECURSIVE SqrtSearch(_, _, _)
SqrtSearch(n, lo, hi) ==
    IF lo >= hi THEN lo
    ELSE LET mid == (lo + hi + 1) \div 2
             up == mid * mid <= n
         IN SqrtSearch(n, IF up THEN mid ELSE lo, IF up THEN hi ELSE mid - 1)

\* dx.hypot(dy), rounded down to the unit
Hypot(dx, dy) == SqrtSearch(dx * dx + dy * dy, 0, 4 * U)

Dist2(m, a, b) ==
    (m.x[a] - m.x[b]) * (m.x[a] - m.x[b]) + (m.y[a] - m.y[b]) * (m.y[a] - m.y[b])

\* ---------------------------------------------------------------- ZoneMap
ZoneMap_new(nz) ==
    [ v_num |-> 0,
      v_size |-> ZoneSIZE,
      nz |-> nz,
      total_zones |-> nz * nz,
      greatest_zone_size |-> ZoneSIZE,
      vz |-> [v \in 0 .. VzSize - 1 |-> -1],
      z |-> [i \in 0 .. nz * nz - 1 |-> [size |-> ZoneSIZE, zv |-> << >>]],
      panic |-> FALSE ]

Sz_add_vertex(sz, v1) == [sz EXCEPT !.zv = Append(@, v1)]

add_vertex_to_zone(zm, z1, v1) ==
    IF zm.panic THEN zm
    ELSE IF z1 \notin DOMAIN zm.z THEN [zm EXCEPT !.panic = TRUE]
    ELSE Let(Sz_add_vertex(zm.z[z1], v1), LAMBDA sz :
             \* sz.count is Len(sz.zv)
             IF Len(sz.zv) >= sz.size - 1
             THEN [zm EXCEPT !.z[z1] = [sz EXCEPT !.size = 2 * @],
                             !.greatest_zone_size =
                                 IF 2 * sz.size > @ THEN 2 * sz.size ELSE @]
             ELSE [zm EXCEPT !.z[z1] = sz])

\* index (1-based) of the first occurrence of v1 in zv, 0 when absent
FirstIndex(zv, v1) ==
    IF \E i \in 1 .. Len(zv) : zv[i] = v1
    THEN CHOOSE i \in 1 .. Len(zv) :
             zv[i] = v1 /\ \A k \in 1 .. i - 1 : zv[k] # v1
    ELSE 0

remove_vertex_from_zone(zm, z1, v1) ==
    IF zm.panic THEN zm
    ELSE IF z1 \notin DOMAIN zm.z THEN [zm EXCEPT !.panic = TRUE]
    ELSE LET zv == zm.z[z1].zv
             i == FirstIndex(zv, v1)
         IN IF i = 0 THEN zm
            ELSE [zm EXCEPT !.z[z1].zv =
                     SubSeq([zv EXCEPT ![i] = zv[Len(zv)]], 1, Len(zv) - 1)]

\* the grid cell of (x, y): column floor(x * nz), row floor(y * nz)
get_z_cell(zm, x, y) ==
    zm.nz * ((x * zm.nz) \div U) + ((y * zm.nz) \div U)

get_z(zm, x, y) ==
    LET i == AsI64(x) * zm.nz
        j == AsI64(y) * zm.nz
    IN zm.nz * i + j

ZoneMap_add_vertex(zm, v1, xs, ys) ==
    IF zm.panic THEN zm
    ELSE IF v1 \notin DOMAIN xs THEN [zm EXCEPT !.panic = TRUE]
    ELSE LET v_num == zm.v_num
             z1 == get_z(zm, xs[v1], ys[v1])
         IN Let(add_vertex_to_zone(zm, z1, v_num), LAMBDA zm1 :
                IF zm1.panic THEN zm1
                ELSE IF v_num \notin DOMAIN zm1.vz THEN [zm1 EXCEPT !.panic = TRUE]
                ELSE [zm1 EXCEPT !.vz[v_num] = z1,
                                 !.v_size = IF v_num >= @ - 1 THEN 2 * @ ELSE @,
                                 !.v_num = @ + 1])

ZoneMap_delete_vertex(zm, v1) ==
    IF zm.panic THEN zm
    ELSE IF v1 \notin DOMAIN zm.vz THEN [zm EXCEPT !.panic = TRUE]
    ELSE Let(remove_vertex_from_zone(zm, zm.vz[v1], v1), LAMBDA zm1 :
             IF zm1.panic THEN zm1 ELSE [zm1 EXCEPT !.vz[v1] = -1])

update_vertex(zm, v1, x, y) ==
    IF zm.panic THEN zm
    ELSE IF v1 \notin DOMAIN zm.vz THEN [zm EXCEPT !.panic = TRUE]
    ELSE LET old_z == zm.vz[v1]
             new_z == get_z(zm, x, y)
         IN IF old_z < 0 \/ new_z = old_z THEN zm
            ELSE Let(add_vertex_to_zone(remove_vertex_from_zone(zm, old_z, v1),
                                        new_z, v1), LAMBDA zm2 :
                     IF zm2.panic THEN zm2 ELSE [zm2 EXCEPT !.vz[v1] = new_z])

\* the initial size of one zone list in place of nine times the greatest
get_max_sphere_count_initial(zm) == ZoneSIZE

get_max_sphere_count(zm) == zm.greatest_zone_size * 9

\* the ids of one cell that pass the distance filter, in cell order
RECURSIVE SphereCell(_, _, _, _, _, _, _)
SphereCell(zv, k, x, y, xs, ys, rad2) ==
    IF k > Len(zv) THEN << >>
    ELSE LET l == zv[k]
             dx == x - xs[l]
             dy == y - ys[l]
             rest == SphereCell(zv, k + 1, x, y, xs, ys, rad2)
         IN IF dx * dx + dy * dy < rad2 THEN << l >> \o rest ELSE rest

RECURSIVE SphereCols(_, _, _, _, _, _, _, _, _)
SphereCols(zm, i, j, jhi, x, y, xs, ys, rad2) ==
    IF j >= jhi THEN << >>
    ELSE SphereCell(zm.z[i * zm.nz + j].zv, 1, x, y, xs, ys, rad2)
         \o SphereCols(zm, i, j + 1, jhi, x, y, xs, ys, rad2)

RECURSIVE SphereRows(_, _, _, _, _, _, _, _, _, _)
SphereRows(zm, i, ihi, jlo, jhi, x, y, xs, ys, rad2) ==
    IF i >= ihi THEN << >>
    ELSE SphereCols(zm, i, jlo, jhi, x, y, xs, ys, rad2)
         \o SphereRows(zm, i + 1, ihi, jlo, jhi, x, y, xs, ys, rad2)

\* zx, zy of sphere_vertices: the cell the scan is centred on
SphereZone(zm, x, y) == << AsI64(x) * zm.nz, AsI64(y) * zm.nz >>

\* the ids written to the caller's buffer, in the order written
sphere_vertices(zm, v, xs, ys, rad) ==
    LET x == xs[v]
        y == ys[v]
        zx == SphereZone(zm, x, y)[1]
        zy == SphereZone(zm, x, y)[2]
    IN SphereRows(zm, Max2(zx - 1, 0), Min2(zx + 2, zm.nz),
                  Max2(zy - 1, 0), Min2(zy + 2, zm.nz), x, y, xs, ys, rad * rad)

\* --------------------------------------------------------------- Segments
Segments_new(n_max, zone_width) ==
    LET nz0 == U \div zone_width
        nz == IF nz0 < 3 THEN 1 ELSE nz0
    IN [ n_max |-> n_max,
         zone_width |-> IF nz0 < 3 THEN U ELSE zone_width,
         v_num |-> 0,
         e_num |-> 0,
         s_num |-> 0,
         nz |-> nz,
         x |-> [v \in 0 .. n_max - 1 |-> 0],
         y |-> [v \in 0 .. n_max - 1 |-> 0],
         va |-> [v \in 0 .. n_max - 1 |-> -1],
         vs |-> [v \in 0 .. n_max - 1 |-> -1],
         ev |-> [i \in 0 .. 2 * n_max - 1 |-> -1],
         ve |-> [i \in 0 .. 2 * n_max - 1 |-> -1],
         zone_map |-> ZoneMap_new(nz),
         overwrote |-> FALSE,
         panic |-> FALSE ]

Panic(m) == [m EXCEPT !.panic = TRUE]

valid_new_vertex(x, y) == 0 <= x /\ x <= U /\ 0 <= y /\ y <= U

\* the body shared by add_vertex and add_passive_vertex; a is the status written
AddVertexAs(m, x, y, s, a) ==
    IF m.panic THEN m
    ELSE IF ~valid_new_vertex(x, y) THEN Panic(m)
    ELSE IF m.v_num \notin DOMAIN m.x THEN Panic(m)
    ELSE LET v_num == m.v_num
             m1 == [m EXCEPT !.x[v_num] = x, !.y[v_num] = y,
                             !.va[v_num] = a, !.vs[v_num] = s]
         IN Let(ZoneMap_add_vertex(m1.zone_map, v_num, m1.x, m1.y), LAMBDA zm :
                IF zm.panic THEN [m1 EXCEPT !.zone_map = zm, !.panic = TRUE]
                ELSE [m1 EXCEPT !.zone_map = zm, !.v_num = @ + 1])

add_vertex(m, x, y, s) == AddVertexAs(m, x, y, s, Active)

add_passive_vertex(m, x, y, s) == AddVertexAs(m, x, y, s, Passive)

\* valid_new_edge without the status test
valid_new_edge_any_status(m, v1, v2) ==
    /\ 0 <= v1 /\ v1 < m.v_num
    /\ 0 <= v2 /\ v2 < m.v_num

valid_new_edge(m, v1, v2) ==
    /\ 0 <= v1 /\ v1 < m.v_num
    /\ 0 <= v2 /\ v2 < m.v_num
    /\ m.va[v1] >= 0
    /\ m.va[v2] >= 0

\* add_e_to_ve writing slot 0 whether it is free or not
add_e_to_ve_slot_0(m, v, e) ==
    [m EXCEPT !.ve[2 * v] = e, !.overwrote = @ \/ m.ve[2 * v] >= 0]

\* the history field overwrote records that a write of add_e_to_ve has
\* replaced an edge id (a slot that was not -1)
add_e_to_ve(m, v, e) ==
    IF m.ve[2 * v] < 0 THEN [m EXCEPT !.ve[2 * v] = e]
                       ELSE [m EXCEPT !.ve[2 * v + 1] = e,
                                      !.overwrote = @ \/ m.ve[2 * v + 1] >= 0]

\* add_edge leaving a full edge table as it is instead of halting
add_edge_drop_when_full(m, v1, v2) ==
    IF m.panic \/ 2 * m.e_num \notin DOMAIN m.ev THEN m
    ELSE IF ~valid_new_edge(m, v1, v2) THEN Panic(m)
    ELSE LET e_num == m.e_num
             m1 == [m EXCEPT !.ev[2 * e_num] = v1, !.ev[2 * e_num + 1] = v2]
         IN [add_e_to_ve(add_e_to_ve(m1, v1, e_num), v2, e_num)
                EXCEPT !.e_num = @ + 1]

add_edge(m, v1, v2) ==
    IF m.panic THEN m
    ELSE IF ~valid_new_edge(m, v1, v2) THEN Panic(m)
    ELSE IF 2 * m.e_num \notin DOMAIN m.ev THEN Panic(m)
    ELSE LET e_num == m.e_num
             m1 == [m EXCEPT !.ev[2 * e_num] = v1, !.ev[2 * e_num + 1] = v2]
             m2 == add_e_to_ve(m1, v1, e_num)
             m3 == add_e_to_ve(m2, v2, e_num)
         IN [m3 EXCEPT !.e_num = @ + 1]

\* callers check e1 >= 0 first; an index beyond the array panics
EdgeInArray(m, e1) == 0 <= e1 /\ 2 * e1 + 1 \in DOMAIN m.ev

edge_exists(m, e1) == m.ev[2 * e1] > -1 /\ m.ev[2 * e1 + 1] > -1

delete_vertex(m, v1) ==
    IF m.panic THEN m
    ELSE IF v1 \notin DOMAIN m.va THEN Panic(m)
    ELSE Let(ZoneMap_delete_vertex(m.zone_map, v1), LAMBDA zm :
             [m EXCEPT !.va[v1] = -1, !.zone_map = zm, !.panic = zm.panic])

delete_e_from_ve(m, v, e) ==
    IF m.ve[2 * v] = e
    THEN [m EXCEPT !.ve[2 * v] = m.ve[2 * v + 1], !.ve[2 * v + 1] = -1]
    ELSE IF m.ve[2 * v + 1] = e THEN [m EXCEPT !.ve[2 * v + 1] = -1]
    ELSE m

\* delete_edge with the writes to the edge table ev left out
delete_edge_keep_ev(m, e1) ==
    IF m.panic THEN m
    ELSE IF e1 < 0 \/ e1 >= m.e_num THEN Panic(m)
    ELSE LET v1 == m.ev[2 * e1]
             v2 == m.ev[2 * e1 + 1]
         IN Let(IF v1 > -1 THEN delete_e_from_ve(m, v1, e1) ELSE m, LAMBDA m2 :
                IF v2 > -1 THEN delete_e_from_ve(m2, v2, e1) ELSE m2)

delete_edge(m, e1) ==
    IF m.panic THEN m
    ELSE IF e1 < 0 \/ e1 >= m.e_num THEN Panic(m)
    ELSE LET v1 == m.ev[2 * e1]
             v2 == m.ev[2 * e1 + 1]
         IN Let([m EXCEPT !.ev[2 * e1] = -1, !.ev[2 * e1 + 1] = -1], LAMBDA m1 :
            Let(IF v1 > -1 THEN delete_e_from_ve(m1, v1, e1) ELSE m1, LAMBDA m2 :
                IF v2 > -1 THEN delete_e_from_ve(m2, v2, e1) ELSE m2))

\* squared length of edge e1 (get_edge_length before the square root)
EdgeLen2(m, e1) == Dist2(m, m.ev[2 * e1], m.ev[2 * e1 + 1])

get_edge_length(m, e1) ==
    Hypot(m.x[m.ev[2 * e1]] - m.x[m.ev[2 * e1 + 1]],
          m.y[m.ev[2 * e1]] - m.y[m.ev[2 * e1 + 1]])

\* the first operand in place of the midpoint
Mid_first(a, b) == a

\* (a + b) / 2. rounded down to the unit
Mid(a, b) == (a + b) \div 2

\* ----------------------------------------------------------- initializers
\* for &[x, y] in &xys[i ..= hi] { vertices.push(add(x, y, s)) }, a the status
RECURSIVE PushVertices(_, _, _, _, _, _)
PushVertices(r, xys, i, hi, s, a) ==
    IF i > hi \/ r.m.panic THEN r
    ELSE LET id == r.m.v_num
             m1 == IF a = Active
                   THEN add_vertex(r.m, xys[i][1], xys[i][2], s)
                   ELSE add_passive_vertex(r.m, xys[i][1], xys[i][2], s)
         IN PushVertices([m |-> m1, vertices |-> Append(r.vertices, id)],
                         xys, i + 1, hi, s, a)

\* for e in vertices.chunks_exact(2) { add_edge(e[0], e[1]) }
RECURSIVE ChunkEdges(_, _, _)
ChunkEdges(m, vertices, i) ==
    IF i + 1 > Len(vertices) THEN m
    ELSE ChunkEdges(add_edge(m, vertices[i], vertices[i + 1]), vertices, i + 2)

EndSegment(m) == IF m.panic THEN m ELSE [m EXCEPT !.s_num = @ + 1]

\* the edge loop and s_num += 1 that end a line initializer
LineEdges(r) == EndSegment(ChunkEdges(r.m, r.vertices, 1))

init_line_segment(m, xys, lock_edges) ==
    LET s_num == m.s_num
        r0 == [m |-> m, vertices |-> << >>]
        n == Len(xys)
    IN IF lock_edges
       THEN IF n = 0 THEN Panic(m)
            ELSE Let(PushVertices(r0, xys, 1, 1, s_num, Passive), LAMBDA r1 :
                 IF n = 1 THEN Panic(r1.m)
                 ELSE Let(PushVertices(
                              PushVertices(r1, xys, 2, n - 1, s_num, Active),
                              xys, n, n, s_num, Passive), LineEdges))
       ELSE Let(PushVertices(r0, xys, 1, n, s_num, Active), LineEdges)

init_passive_line_segment(m, xys) ==
    Let(PushVertices([m |-> m, vertices |-> << >>], xys, 1, Len(xys),
                     m.s_num, Passive), LineEdges)

\* theta.cos() and theta.sin() for theta a number of quarter turns
Cos4(q) == CASE q % 4 = 0 -> 1 [] q % 4 = 1 -> 0 [] q % 4 = 2 -> -1 [] OTHER -> 0
Sin4(q) == CASE q % 4 = 0 -> 0 [] q % 4 = 1 -> 1 [] q % 4 = 2 -> 0 [] OTHER -> -1

\* the points x + r * cos(theta), y + r * sin(theta) of the angles, in order
CirclePoints(x, y, r, angles) ==
    [i \in 1 .. Len(angles) |->
        << x + r * Cos4(angles[i]), y + r * Sin4(angles[i]) >>]

\* the edge loop, the closing edge and s_num += 1 of a circle initializer
CircleEdges(r) ==
    Let(ChunkEdges(r.m, r.vertices, 1), LAMBDA m2 :
        IF m2.panic THEN m2
        ELSE IF Len(r.vertices) = 0 THEN Panic(m2)
        ELSE EndSegment(add_edge(m2, r.vertices[1], r.vertices[Len(r.vertices)])))

\* the body shared by the two circle initializers; a is the status written
CircleAs(m, x, y, r, angles, a) ==
    Let(PushVertices([m |-> m, vertices |-> << >>],
                     CirclePoints(x, y, r, angles), 1, Len(angles), m.s_num, a),
        CircleEdges)

init_circle_segment(m, x, y, r, angles) == CircleAs(m, x, y, r, angles, Active)

init_passive_circle_segment(m, x, y, r, angles) ==
    CircleAs(m, x, y, r, angles, Passive)

\* ------------------------------------------------------- structural edits
\* the edge itself in place of the other edge of v1
OtherEdge_same(m, v1, e1) == e1

\* the other edge in v1's slots, as collapse_edge picks it
OtherEdge(m, v1, e1) ==
    IF m.ve[2 * v1] = e1 THEN m.ve[2 * v1 + 1] ELSE m.ve[2 * v1]

\* the other endpoint of edge e as seen from v
OtherEnd(m, e, v) ==
    IF m.ev[2 * e] = v THEN m.ev[2 * e + 1] ELSE m.ev[2 * e]

\* the length test with the limit never applied
ExceedsMaxLen_never(m, v1, v2, max_len) == FALSE

\* max_len > 0. && length > max_len, on squares
ExceedsMaxLen(m, v1, v2, max_len) ==
    max_len > 0 /\ Dist2(m, v1, v2) > max_len * max_len

collapse_edge(m, e1, max_len) ==
    IF m.panic THEN m
    ELSE IF e1 < 0 THEN Panic(m)
    ELSE IF ~EdgeInArray(m, e1) THEN Panic(m)
    ELSE IF ~edge_exists(m, e1) THEN Panic(m)
    ELSE LET v1 == m.ev[2 * e1]
             v2 == m.ev[2 * e1 + 1]
         IN IF m.va[v1] < 1 THEN Panic(m)
            ELSE IF m.va[v2] < 1 THEN Panic(m)
            ELSE LET e2 == OtherEdge(m, v1, e1)
                 IN IF ~EdgeInArray(m, e2) THEN Panic(m)
                    ELSE LET v3 == OtherEnd(m, e2, v1)
                         IN IF ExceedsMaxLen(m, v1, v2, max_len)
                            THEN Panic(m)
                            ELSE LET m1 == [m EXCEPT
                                              !.x[v2] = Mid(m.x[v1], m.x[v2]),
                                              !.y[v2] = Mid(m.y[v1], m.y[v2])]
                                     m2 == delete_edge(m1, e1)
                                     m3 == delete_edge(m2, e2)
                                     m4 == delete_vertex(m3, v1)
                                 IN add_edge(m4, v3, v2)

collapse_edge_no_max(m, e1) == collapse_edge(m, e1, -1)

\* the mesh after the call and the Result returned ("panic" when it halts)
split_edge(m, e1, min_len) ==
    IF m.panic THEN [m |-> m, res |-> "panic"]
    ELSE IF e1 < 0 THEN [m |-> m, res |-> "Err"]
    ELSE IF ~EdgeInArray(m, e1) THEN [m |-> Panic(m), res |-> "panic"]
    ELSE IF ~edge_exists(m, e1) THEN [m |-> m, res |-> "Err"]
    ELSE LET v1 == m.ev[2 * e1]
             v2 == m.ev[2 * e1 + 1]
             s == m.vs[v1]
         IN IF s < 0 THEN [m |-> m, res |-> "Err"]
            ELSE IF min_len > 0 /\ Dist2(m, v1, v2) < min_len * min_len
            THEN [m |-> Panic(m), res |-> "panic"]
            ELSE LET mid_x == Mid(m.x[v1], m.x[v2])
                     mid_y == Mid(m.y[v1], m.y[v2])
                     v3 == m.v_num
                     m1 == add_vertex(m, mid_x, mid_y, s)
                     m2 == delete_edge(m1, e1)
                     m3 == add_edge(m2, v1, v3)
                 IN Let(add_edge(m3, v2, v3), LAMBDA m4 :
                        [m |-> m4, res |-> IF m4.panic THEN "panic" ELSE "Ok"])

split_edge_no_min(m, e1) == split_edge(m, e1, -1)

\* dist > limit for the edge v1 - v2, compared on the squares
LongerThan(m, v1, v2, limit) == limit < 0 \/ Dist2(m, v1, v2) > limit * limit

\* one turn of split_long_edges with `dist >= limit` in place of `dist > limit`
SplitLongOne_at_limit(m, e, limit) ==
    IF m.ev[2 * e] > -1
    THEN LET v1 == m.ev[2 * e]
             v2 == m.ev[2 * e + 1]
         IN IF m.va[v1] < 1 /\ m.va[v2] < 1 THEN m
            ELSE IF limit <= 0 \/ Dist2(m, v1, v2) >= limit * limit
            THEN split_edge_no_min(m, e).m
            ELSE m
    ELSE m

\* one turn of the loop of split_long_edges, on edge e; the Result of the
\* split is dropped
SplitLongOne(m, e, limit) ==
    IF m.ev[2 * e] > -1
    THEN LET v1 == m.ev[2 * e]
             v2 == m.ev[2 * e + 1]
         IN IF m.va[v1] < 1 /\ m.va[v2] < 1 THEN m
            ELSE IF LongerThan(m, v1, v2, limit)
            THEN split_edge_no_min(m, e).m
            ELSE m
    ELSE m

\* for e in e .. e_num - 1, e_num the count read when the loop started
RECURSIVE SplitLongLoop(_, _, _, _)
SplitLongLoop(m, e, e_num, limit) ==
    IF e >= e_num \/ m.panic THEN m
    ELSE Let(SplitLongOne(m, e, limit), LAMBDA m1 :
             SplitLongLoop(m1, e + 1, e_num, limit))

split_long_edges(m, limit) == SplitLongLoop(m, 0, m.e_num, limit)

\* ---------------------------------------------------------------- queries
safe_vertex_positions(m, limit) ==
    \A i \in 0 .. m.v_num - 1 :
        /\ limit <= m.x[i] /\ m.x[i] <= U - limit
        /\ limit <= m.y[i] /\ m.y[i] <= U - limit

\* ve_map.get(&v) of the sorted-vertices traversal: the live edges pushed for
\* v, edge by edge in increasing id, once for each end of the edge that is v
RECURSIVE VeMap(_, _, _)
VeMap(m, v, e) ==
    IF e >= m.e_num THEN << >>
    ELSE (IF m.ev[2 * e] > -1
          THEN (IF m.ev[2 * e] = v THEN << e >> ELSE << >>)
               \o (IF m.ev[2 * e + 1] = v THEN << e >> ELSE << >>)
          ELSE << >>) \o VeMap(m, v, e + 1)

\* e_start of the traversal: the last live edge of the table, -1 for none
SortedStart(m) ==
    IF \E e \in 0 .. m.e_num - 1 : m.ev[2 * e] > -1
    THEN CHOOSE e \in 0 .. m.e_num - 1 :
            /\ m.ev[2 * e] > -1
            /\ \A f \in e + 1 .. m.e_num - 1 : m.ev[2 * f] <= -1
    ELSE -1

\* while v_cur != v_end { ... } of the traversal; res is "panic" when ve_map
\* has no second edge to take, "loops" when fuel turns of the loop did not
\* bring v_cur back to v_end
RECURSIVE SortedWalk(_, _, _, _, _, _)
SortedWalk(m, v_end, v_cur, e_visited, v_ordered, fuel) ==
    IF v_cur = v_end THEN [v_ordered |-> v_ordered, res |-> "Ok"]
    ELSE IF fuel = 0 THEN [v_ordered |-> v_ordered, res |-> "loops"]
    ELSE LET ve == VeMap(m, v_cur, 0)
         IN IF Len(ve) = 0 \/ (ve[1] \in e_visited /\ Len(ve) < 2)
            THEN [v_ordered |-> v_ordered, res |-> "panic"]
            ELSE LET e == IF ve[1] \in e_visited THEN ve[2] ELSE ve[1]
                     v_next == OtherEnd(m, e, v_cur)
                 IN SortedWalk(m, v_end, v_next, e_visited \cup { e },
                               Append(v_ordered, v_next), fuel - 1)

\* v_ordered as both traversals build it, before it is copied out
SortedOrder(m) ==
    Let(SortedStart(m), LAMBDA e_start :
        IF e_start < 0 THEN [v_ordered |-> << >>, res |-> "Ok"]
        ELSE SortedWalk(m, m.ev[2 * e_start], m.ev[2 * e_start + 1],
                        { e_start }, << >>, 2 * m.e_num + 1))

\* np_get_sorted_vertices on a buffer of buf_len ids: copy_from_slice halts
\* unless the buffer has exactly the length of v_ordered
np_get_sorted_vertices(m, buf_len) ==
    Let(SortedOrder(m), LAMBDA r :
        IF r.res = "Ok" /\ Len(r.v_ordered) # buf_len
        THEN [buf |-> << >>, n |-> -1, res |-> "panic"]
        ELSE [buf |-> r.v_ordered, n |-> Len(r.v_ordered), res |-> r.res])

\* np_get_sorted_vertex_coordinates on a buffer of buf_len points: buf[i] is
\* written for each i, which halts past the end of the buffer
np_get_sorted_vertex_coordinates(m, buf_len) ==
    Let(SortedOrder(m), LAMBDA r :
        IF r.res = "Ok" /\ Len(r.v_ordered) > buf_len
        THEN [buf |-> << >>, n |-> -1, res |-> "panic"]
        ELSE [buf |-> [i \in 1 .. Len(r.v_ordered) |->
                         << m.x[r.v_ordered[i]], m.y[r.v_ordered[i]] >>],
              n |-> Len(r.v_ordered), res |-> r.res])

\* |ax * by - ay * bx| for a the vector of edge e and b the vector of edge e1:
\* twice the term get_edge_curvature adds to t, in square units
Cross2(m, e, e1) ==
    LET ax == m.x[m.ev[2 * e]] - m.x[m.ev[2 * e + 1]]
        ay == m.y[m.ev[2 * e]] - m.y[m.ev[2 * e + 1]]
        bx == m.x[m.ev[2 * e1]] - m.x[m.ev[2 * e1 + 1]]
        by == m.y[m.ev[2 * e1]] - m.y[m.ev[2 * e1 + 1]]
        c == ax * by - ay * bx
    IN IF c >= 0 THEN c ELSE -c

\* (e2, e3) of get_edge_curvature: the slots of v1 and v2 left over by the
\* first pair of slots found equal; << -2, -2 >> for "edges are not connected"
CurvatureNeighbors(m, v1, v2) ==
    CASE m.ve[2 * v1] = m.ve[2 * v2] -> << m.ve[2 * v1 + 1], m.ve[2 * v2 + 1] >>
      [] m.ve[2 * v1] = m.ve[2 * v2 + 1] -> << m.ve[2 * v1 + 1], m.ve[2 * v2] >>
      [] m.ve[2 * v1 + 1] = m.ve[2 * v2] -> << m.ve[2 * v1], m.ve[2 * v2 + 1] >>
      [] m.ve[2 * v1 + 1] = m.ve[2 * v2 + 1] -> << m.ve[2 * v1], m.ve[2 * v2] >>
      [] OTHER -> << -2, -2 >>

\* get_edge_curvature(e1): res is "panic" when the call halts; t2 is twice
\* the value t the call computes (-1 when it halts before computing it)
get_edge_curvature(m, e1) ==
    IF e1 < 0 \/ ~EdgeInArray(m, e1) THEN [res |-> "panic", t2 |-> -1]
    ELSE IF ~edge_exists(m, e1) THEN [res |-> "panic", t2 |-> -1]
    ELSE LET v1 == m.ev[2 * e1]
             v2 == m.ev[2 * e1 + 1]
         IN IF v1 < 0 \/ v2 < 0 THEN [res |-> "panic", t2 |-> -1]
            ELSE LET n == CurvatureNeighbors(m, v1, v2)
                     e2 == n[1]
                     e3 == n[2]
                 IN IF e2 = -2 THEN [res |-> "panic", t2 |-> -1]
                    ELSE IF (e2 > -1 /\ (~EdgeInArray(m, e2) \/ m.ev[2 * e2] < 0))
                            \/ (e3 > -1 /\ (~EdgeInArray(m, e3) \/ m.ev[2 * e3] < 0))
                    THEN [res |-> "panic", t2 |-> -1]
                    ELSE LET t2 == (IF e2 > -1 THEN Cross2(m, e2, e1) ELSE 0)
                                   + (IF e3 > -1 THEN Cross2(m, e3, e1) ELSE 0)
                         IN [res |-> IF t2 <= 0 THEN "panic" ELSE "Ok",
                             t2 |-> t2]

\* ------------------------------------------------------- DifferentialLine
\* the two graph neighbours reject reads for v: the other ends of its slots
Linked(m, v) ==
    { OtherEnd(m, m.ve[2 * v + i], v) : i \in {0, 1} }

\* reject takes `continue` for neighbor: too near when linked, too far when
\* not, or at the very place of v
Skipped(m, v, neighbor, near_l, far_l) ==
    LET d2 == Dist2(m, v, neighbor)
    IN IF neighbor \in Linked(m, v) THEN d2 < near_l * near_l \/ d2 <= 0
                                    ELSE d2 > far_l * far_l \/ d2 <= 0

\* the terms of reject with a repulsion that does not decay with distance:
\* step * dx * far_l / norm
Contribution_no_decay(m, v, neighbor, step, near_l, far_l) ==
    LET dx == m.x[v] - m.x[neighbor]
        dy == m.y[v] - m.y[neighbor]
        norm == Hypot(dx, dy)
    IN IF Skipped(m, v, neighbor, near_l, far_l) THEN << 0, 0 >>
       ELSE IF neighbor \in Linked(m, v)
       THEN << Quot(step * (-dx), norm), Quot(step * (-dy), norm) >>
       ELSE << Quot(step * dx * far_l, norm * U),
               Quot(step * dy * far_l, norm * U) >>

\* the one attraction or repulsion displacement of v due to neighbor, as
\* reject computes the term it adds to res_x, res_y; << 0, 0 >> when skipped
Contribution(m, v, neighbor, step, near_l, far_l) ==
    LET dx == m.x[v] - m.x[neighbor]
        dy == m.y[v] - m.y[neighbor]
        norm == Hypot(dx, dy)
    IN IF Skipped(m, v, neighbor, near_l, far_l) THEN << 0, 0 >>
       ELSE IF neighbor \in Linked(m, v)
       THEN << Quot(step * (-dx), norm), Quot(step * (-dy), norm) >>
       ELSE << Quot(step * dx * (far_l - norm), norm * U),
               Quot(step * dy * (far_l - norm), norm * U) >>

\* the loop of reject over the first n_vertices ids of the query result;
\* acc holds res_x, res_y and the running sx[v], sy[v]
RECURSIVE RejectLoop(_, _, _, _, _, _, _, _, _, _)
RejectLoop(m, v, v1, v2, vertices, k, step, near_l, far_l, acc) ==
    IF k > Len(vertices) THEN acc
    ELSE LET neighbor == vertices[k]
             c == Contribution(m, v, neighbor, step, near_l, far_l)
             res_x == acc.res_x + c[1]
             res_y == acc.res_y + c[2]
             acc1 == IF Skipped(m, v, neighbor, near_l, far_l) THEN acc
                     ELSE [res_x |-> res_x, res_y |-> res_y,
                           sx |-> acc.sx + res_x, sy |-> acc.sy + res_y]
         IN RejectLoop(m, v, v1, v2, vertices, k + 1, step, near_l, far_l, acc1)

\* reject without the early return for vertices that are not Active
reject_any_status(d, v, vertices, step, near_l, far_l) ==
    LET m == d.m
        e1 == m.ve[2 * v]
        e2 == m.ve[2 * v + 1]
    IN IF ~EdgeInArray(m, e1) \/ ~EdgeInArray(m, e2)
       THEN [d EXCEPT !.m = Panic(m)]
       ELSE LET acc == RejectLoop(m, v, OtherEnd(m, e1, v), OtherEnd(m, e2, v),
                                  vertices, 1, step, near_l, far_l,
                                  [res_x |-> 0, res_y |-> 0,
                                   sx |-> d.sx[v], sy |-> d.sy[v]])
            IN [d EXCEPT !.sx[v] = acc.sx, !.sy[v] = acc.sy]

\* d is the solver: its mesh m and scratch sx, sy; yields the solver after
\* the call
reject(d, v, vertices, step, near_l, far_l) ==
    LET m == d.m
    IN IF m.va[v] < 1 THEN d
       ELSE LET e1 == m.ve[2 * v]
                e2 == m.ve[2 * v + 1]
            IN IF ~EdgeInArray(m, e1) \/ ~EdgeInArray(m, e2)
               THEN [d EXCEPT !.m = Panic(m)]
               ELSE LET v1 == OtherEnd(m, e1, v)
                        v2 == OtherEnd(m, e2, v)
                        acc == RejectLoop(m, v, v1, v2, vertices, 1, step,
                                          near_l, far_l,
                                          [res_x |-> 0, res_y |-> 0,
                                           sx |-> d.sx[v], sy |-> d.sy[v]])
                    IN [d EXCEPT !.sx[v] = acc.sx, !.sy[v] = acc.sy]

\* first pass of optimize_position: clear, query, reject, for v in v .. v_num-1
RECURSIVE ComputePass(_, _, _, _, _)
ComputePass(d, v, step, near_l, far_l) ==
    IF v >= d.m.v_num \/ d.m.panic THEN d
    ELSE LET d0 == [d EXCEPT !.sx[v] = 0, !.sy[v] = 0]
             vertices == sphere_vertices(d0.m.zone_map, v, d0.m.x, d0.m.y, far_l)
         IN ComputePass(reject(d0, v, vertices, step, near_l, far_l),
                        v + 1, step, near_l, far_l)

\* second pass: add the displacement to every vertex that is not deleted
ApplyPass(d) ==
    [d EXCEPT !.m.x = [v \in DOMAIN @ |->
                         IF v < d.m.v_num /\ d.m.va[v] >= 0 THEN @[v] + d.sx[v]
                                                           ELSE @[v]],
              !.m.y = [v \in DOMAIN @ |->
                         IF v < d.m.v_num /\ d.m.va[v] >= 0 THEN @[v] + d.sy[v]
                                                           ELSE @[v]]]

\* third pass: update_vertex for every vertex that is not deleted
RECURSIVE ReindexPass(_, _)
ReindexPass(m, v) ==
    IF v >= m.v_num \/ m.panic THEN m
    ELSE ReindexPass(
             IF m.va[v] < 0 THEN m
             ELSE Let(update_vertex(m.zone_map, v, m.x[v], m.y[v]), LAMBDA zm :
                      [m EXCEPT !.zone_map = zm, !.panic = zm.panic]),
             v + 1)

\* optimize_position in one pass: each vertex is displaced and re-indexed as
\* soon as its displacement is known, before the next vertex is looked at
RECURSIVE InPlacePass(_, _, _, _, _)
InPlacePass(d, v, step, near_l, far_l) ==
    IF v >= d.m.v_num \/ d.m.panic THEN d
    ELSE Let(ComputePass([d EXCEPT !.m.v_num = v + 1], v, step, near_l, far_l),
             LAMBDA d1 :
                 IF d1.m.panic \/ d1.m.va[v] < 0
                 THEN InPlacePass([d1 EXCEPT !.m.v_num = d.m.v_num], v + 1,
                                  step, near_l, far_l)
                 ELSE Let([d1 EXCEPT !.m.v_num = d.m.v_num,
                                     !.m.x[v] = @ + d1.sx[v],
                                     !.m.y[v] = @ + d1.sy[v]],
                          LAMBDA d2 :
                              Let(update_vertex(d2.m.zone_map, v, d2.m.x[v],
                                                d2.m.y[v]),
                                  LAMBDA zm :
                                      InPlacePass([d2 EXCEPT
                                                     !.m.zone_map = zm,
                                                     !.m.panic = zm.panic],
                                                  v + 1, step, near_l, far_l))))

optimize_position_in_place(d, step, near_l, far_l) ==
    InPlacePass(d, 0, step, near_l, far_l)

optimize_position(d, step, near_l, far_l) ==
    Let(ComputePass(d, 0, step, near_l, far_l), LAMBDA d1 :
        IF d1.m.panic THEN d1
        ELSE Let(ApplyPass(d1), LAMBDA d2 :
                 [d2 EXCEPT !.m = ReindexPass(d2.m, 0)]))

\* the constant the growth trigger compares with its limit, in thousandths
SpawnX == 100

\* one turn of the loop of spawn on edge e
SpawnOne(m, e, near_l, limit) ==
    IF SpawnX < limit
    THEN IF ~EdgeInArray(m, e) \/ m.ev[2 * e] < 0 \/ m.ev[2 * e + 1] < 0
         THEN Panic(m)
         ELSE IF EdgeLen2(m, e) < near_l * near_l THEN m
         ELSE split_edge_no_min(m, e).m
    ELSE m

RECURSIVE SpawnLoop(_, _, _, _, _)
SpawnLoop(m, e, e_num, near_l, limit) ==
    IF e >= e_num \/ m.panic THEN m
    ELSE SpawnLoop(SpawnOne(m, e, near_l, limit), e + 1, e_num, near_l, limit)

\* limit in thousandths
spawn(m, near_l, limit) == SpawnLoop(m, 0, m.e_num, near_l, limit)

\* steps with the boundary check made on the unit square itself (margin 0)
StepsAfterOptimize_no_margin(d1) ==
    Let(spawn(d1.m, NEAR_L, 1), LAMBDA m2 :
        [d |-> [d1 EXCEPT !.m = m2],
         ret |-> IF m2.panic THEN "panic"
                 ELSE IF ~safe_vertex_positions(m2, 0) THEN "false"
                 ELSE "true"])

\* what steps does once optimize_position has returned the solver d1
StepsAfterOptimize(d1) ==
    Let(spawn(d1.m, NEAR_L, 1), LAMBDA m2 :
        [d |-> [d1 EXCEPT !.m = m2],
         ret |-> IF m2.panic THEN "panic"
                 ELSE IF ~safe_vertex_positions(m2, 3 * STEP) THEN "false"
                 ELSE "true"])

\* the solver after one call of steps and the value returned
steps(d) ==
    Let(optimize_position(d, STEP, NEAR_L, FAR_L), StepsAfterOptimize)

\* ------------------------------------------------------------------ state
VARIABLES
    segments,   \* DifferentialLine.segments, with its zone_map
    sx, sy,     \* DifferentialLine.sx, .sy
    n_steps,    \* optimize_position / steps calls made
    last,       \* the call just made: name, arguments, outcome, and what the
                \* mesh was when it was made (endpoints of e, live counts)
    CURRENT_SHAPE,      \* main.rs static: the shape being drawn
    ALL_SHAPES,         \* shape.rs static: the finished shapes
    DRAG_LAST_UPDATE,   \* main.rs static: ms of the last drag update taken
    now,                \* DRAG_APP_START.elapsed(), in ms
    gesture_active,     \* the GestureDrag is between drag_begin and drag_end
    app                 \* "running", "quit" or "panicked"

\* the state of the window: untouched by the operations of the algorithm
ui == << CURRENT_SHAPE, ALL_SHAPES, DRAG_LAST_UPDATE, now, gesture_active, app >>

vars == << segments, sx, sy, n_steps, last, ui >>

LiveVertices(m) == { v \in 0 .. m.v_num - 1 : m.va[v] > -1 }
LiveEdges(m) == { e \in 0 .. m.e_num - 1 : m.ev[2 * e] > -1 }

NoCall == [op |-> "none", e |-> -1, len |-> -1, pts |-> << >>, lock |-> FALSE,
           res |-> "Ok", v1 |-> -1, v2 |-> -1, nv |-> 0, ne |-> 0]

\* the record of a call made on mesh m
Call(m, op, e, len, pts, lock, res) ==
    [op |-> op, e |-> e, len |-> len, pts |-> pts, lock |-> lock, res |-> res,
     v1 |-> IF EdgeInArray(m, e) THEN m.ev[2 * e] ELSE -1,
     v2 |-> IF EdgeInArray(m, e) THEN m.ev[2 * e + 1] ELSE -1,
     nv |-> Cardinality(LiveVertices(m)),
     ne |-> Cardinality(LiveEdges(m))]

Outcome(m) == IF m.panic THEN "panic" ELSE "Ok"

\* ----------------------------------------------------------------- inputs
P(a, b) == << a * ONE, b * ONE >>

PointLists ==
    { << P(0, 16), P(0, 48) >>,
      << P(16, 16), P(32, 16), P(48, 16) >>,
      << P(16, 32) >> }

Centre == P(32, 32)
Radius == 16 * ONE
AngleLists == { << 0, 2 >>, << 0, 1, 2, 3 >> }

Edges == -1 .. NMax
MinLens == { -1, 20 * ONE }
MaxLens == { -1, 24 * ONE }

\* ------------------------------------------------------------ the window
\* PosOffset as << dx, dy >> in pixels
PosOffset_sub(a, b) == << a[1] - b[1], a[2] - b[2] >>

dist2(a) == a[1] * a[1] + a[2] * a[2]

Shape_new == [start |-> << 0, 0 >>, verticies |-> << >>]

Shape_from_pos(x, y) == [start |-> << x, y >>, verticies |-> << << 0, 0 >> >>]

next_vertex_at(shape, offset) ==
    [shape EXCEPT !.verticies = Append(@, offset)]

\* drag updates closer than this many ms to the last one taken are dropped
MinGap == 50

\* squared distance below which an update adds no vertex
Near2 == 400

InitUI ==
    /\ CURRENT_SHAPE = Shape_new
    /\ ALL_SHAPES = << >>
    /\ DRAG_LAST_UPDATE = 0
    /\ now = 0
    /\ gesture_active = FALSE
    /\ app = "running"

Init ==
    /\ segments = Segments_new(NMax, ZoneWidth)
    /\ sx = [v \in 0 .. NMax - 1 |-> 0]
    /\ sy = [v \in 0 .. NMax - 1 |-> 0]
    /\ n_steps = 0
    /\ last = NoCall
    /\ InitUI

Running == ~segments.panic

\* ---------------------------------------------------------------- actions
InitLineSegment ==
    /\ Running /\ segments.s_num < MaxSegs
    /\ \E xys \in PointLists, lock_edges \in BOOLEAN :
          /\ segments' = init_line_segment(segments, xys, lock_edges)
          /\ last' = Call(segments, "init_line_segment", -1, -1, xys, lock_edges,
                          Outcome(segments'))
    /\ UNCHANGED << sx, sy, n_steps, ui >>

InitPassiveLineSegment ==
    /\ Running /\ segments.s_num < MaxSegs
    /\ \E xys \in PointLists :
          /\ segments' = init_passive_line_segment(segments, xys)
          /\ last' = Call(segments, "init_passive_line_segment", -1, -1, xys, FALSE,
                          Outcome(segments'))
    /\ UNCHANGED << sx, sy, n_steps, ui >>

InitCircleSegment ==
    /\ Running /\ segments.s_num < MaxSegs
    /\ \E angles \in AngleLists :
          /\ segments' = init_circle_segment(segments, Centre[1], Centre[2],
                                             Radius, angles)
          /\ last' = Call(segments, "init_circle_segment", -1, -1, angles, FALSE,
                          Outcome(segments'))
    /\ UNCHANGED << sx, sy, n_steps, ui >>

InitPassiveCircleSegment ==
    /\ Running /\ segments.s_num < MaxSegs
    /\ \E angles \in AngleLists :
          /\ segments' = init_passive_circle_segment(segments, Centre[1],
                                                     Centre[2], Radius, angles)
          /\ last' = Call(segments, "init_passive_circle_segment", -1, -1, angles, FALSE,
                          Outcome(segments'))
    /\ UNCHANGED << sx, sy, n_steps, ui >>

SplitEdge ==
    /\ Running
    /\ \E e \in Edges, min_len \in MinLens :
       \E r \in { split_edge(segments, e, min_len) } :
          /\ segments' = r.m
          /\ last' = Call(segments, "split_edge", e, min_len, << >>, FALSE, r.res)
    /\ UNCHANGED << sx, sy, n_steps, ui >>

CollapseEdge ==
    /\ Running
    /\ \E e \in Edges, max_len \in MaxLens :
          /\ segments' = collapse_edge(segments, e, max_len)
          /\ last' = Call(segments, "collapse_edge", e, max_len, << >>, FALSE,
                          Outcome(segments'))
    /\ UNCHANGED << sx, sy, n_steps, ui >>

Solver == [m |-> segments, sx |-> sx, sy |-> sy]

OptimizePosition ==
    /\ Running /\ n_steps < MaxSteps
    /\ \E d \in { optimize_position(Solver, STEP, NEAR_L, FAR_L) } :
          /\ segments' = d.m
          /\ sx' = d.sx
          /\ sy' = d.sy
          /\ last' = Call(segments, "optimize_position", -1, STEP, << >>, FALSE,
                          Outcome(d.m))
    /\ n_steps' = n_steps + 1
    /\ UNCHANGED ui

Steps ==
    /\ Running /\ n_steps < MaxSteps
    /\ \E r \in { steps(Solver) } :
          /\ segments' = r.d.m
          /\ sx' = r.d.sx
          /\ sy' = r.d.sy
          /\ last' = Call(segments, "steps", -1, STEP, << >>, FALSE, r.ret)
    /\ n_steps' = n_steps + 1
    /\ UNCHANGED ui

\* the limits handed to split_long_edges
Limits == { 10 * ONE, 16 * ONE, 32 * ONE }

SplitLongEdges ==
    /\ Running
    /\ \E limit \in Limits :
          /\ segments' = split_long_edges(segments, limit)
          /\ last' = Call(segments, "split_long_edges", -1, limit, << >>, FALSE,
                          Outcome(segments'))
    /\ UNCHANGED << sx, sy, n_steps, ui >>

Next ==
    \/ InitLineSegment
    \/ InitPassiveLineSegment
    \/ InitCircleSegment
    \/ InitPassiveCircleSegment
    \/ SplitEdge
    \/ CollapseEdge
    \/ OptimizePosition
    \/ Steps
    \/ SplitLongEdges

Spec == Init /\ [][Next]_vars

\* ------------------------------------------------- the zone map on its own
\* The public operations of ZoneMap called directly, with any id: the caller
\* keeps the coordinates in x, y and marks in va which ids it has indexed.
ZonePoints == { P(16, 16), P(48, 48) }

ZoneAddVertex ==
    /\ Running
    /\ \E v1 \in DOMAIN segments.va, pt \in ZonePoints :
          /\ segments.va[v1] = -1
          /\ \E m1 \in { [segments EXCEPT !.x[v1] = pt[1], !.y[v1] = pt[2],
                                          !.va[v1] = Active] } :
             \E zm \in { ZoneMap_add_vertex(m1.zone_map, v1, m1.x, m1.y) } :
                /\ segments' = [m1 EXCEPT !.zone_map = zm, !.panic = zm.panic]
                /\ last' = Call(segments, "ZoneMap::add_vertex", v1, -1,
                                << pt >>, FALSE, Outcome(segments'))
    /\ UNCHANGED << sx, sy, n_steps, ui >>

ZoneDeleteVertex ==
    /\ Running
    /\ \E v1 \in DOMAIN segments.va :
          /\ segments.va[v1] > -1
          /\ \E zm \in { ZoneMap_delete_vertex(segments.zone_map, v1) } :
                /\ segments' = [segments EXCEPT !.va[v1] = -1, !.zone_map = zm,
                                                !.panic = zm.panic]
                /\ last' = Call(segments, "ZoneMap::delete_vertex", v1, -1,
                                << >>, FALSE, Outcome(segments'))
    /\ UNCHANGED << sx, sy, n_steps, ui >>

ZoneUpdateVertex ==
    /\ Running
    /\ \E v1 \in DOMAIN segments.va, pt \in ZonePoints :
          /\ segments.va[v1] > -1
          /\ \E zm \in { update_vertex(segments.zone_map, v1, pt[1], pt[2]) } :
                /\ segments' = [segments EXCEPT !.x[v1] = pt[1], !.y[v1] = pt[2],
                                                !.zone_map = zm,
                                                !.panic = zm.panic]
                /\ last' = Call(segments, "ZoneMap::update_vertex", v1, -1,
                                << pt >>, FALSE, Outcome(segments'))
    /\ UNCHANGED << sx, sy, n_steps, ui >>

NextZoneMap ==
    \/ ZoneAddVertex
    \/ ZoneDeleteVertex
    \/ ZoneUpdateVertex

SpecZoneMap == Init /\ [][NextZoneMap]_vars

\* ------------------------------------------- splitting the long edges
\* the initializers, collapse_edge and split_long_edges on a mesh with room
\* for two splits in one call; the solver is not run here
InitSplitLong ==
    /\ segments = Segments_new(SplitNMax, ZoneWidth)
    /\ sx = [v \in 0 .. SplitNMax - 1 |-> 0]
    /\ sy = [v \in 0 .. SplitNMax - 1 |-> 0]
    /\ n_steps = 0
    /\ last = NoCall
    /\ InitUI

NextSplitLong ==
    \/ InitLineSegment
    \/ InitPassiveLineSegment
    \/ InitCircleSegment
    \/ InitPassiveCircleSegment
    \/ CollapseEdge
    \/ SplitLongEdges

SpecSplitLong == InitSplitLong /\ [][NextSplitLong]_vars

\* ---------------------------------------------------- the forces of reject
\* optimize_position on two-vertex circles about the centre of the square,
\* of radii that put linked and unlinked vertices below, at and above near_l
\* and far_l: the two vertices of a circle are 2 * r apart, vertices of two
\* circles r1 + r2 or the difference of r1 and r2 apart
ForceRadii == { NEAR_L \div 4, NEAR_L \div 2, FAR_L \div 4, FAR_L \div 2,
                (FAR_L \div 2) + 4 * ONE }

InitCircleOfRadius ==
    /\ Running /\ segments.s_num < MaxSegs
    /\ \E r \in ForceRadii :
          /\ segments' = init_circle_segment(segments, Centre[1], Centre[2],
                                             r, << 0, 2 >>)
          /\ last' = Call(segments, "init_circle_segment", -1, r, << 0, 2 >>,
                          FALSE, Outcome(segments'))
    /\ UNCHANGED << sx, sy, n_steps, ui >>

InitPassiveCircleOfRadius ==
    /\ Running /\ segments.s_num < MaxSegs
    /\ \E r \in ForceRadii :
          /\ segments' = init_passive_circle_segment(segments, Centre[1],
                                                     Centre[2], r, << 0, 2 >>)
          /\ last' = Call(segments, "init_passive_circle_segment", -1, r,
                          << 0, 2 >>, FALSE, Outcome(segments'))
    /\ UNCHANGED << sx, sy, n_steps, ui >>

NextForce ==
    \/ InitCircleOfRadius
    \/ InitPassiveCircleOfRadius
    \/ OptimizePosition

SpecForce == Init /\ [][NextForce]_vars

\* ------------------------------------------------ positions on the boundary
\* lines with a vertex on the right side (x = 1.0), on the top side (y = 1.0),
\* at the far corner, and inside the unit square
BoundaryPointLists ==
    { << P(SIZE, 16), P(SIZE, 48) >>,
      << P(16, SIZE), P(48, SIZE) >>,
      << P(32, 32), P(SIZE, SIZE) >>,
      << P(0, 0), P(SIZE - 1, SIZE - 1) >>,
      << P(0, 16), P(0, 48) >> }

InitLineOnBoundary ==
    /\ Running /\ segments.s_num < MaxSegs
    /\ \E xys \in BoundaryPointLists, lock_edges \in BOOLEAN :
          /\ segments' = init_line_segment(segments, xys, lock_edges)
          /\ last' = Call(segments, "init_line_segment", -1, -1, xys, lock_edges,
                          Outcome(segments'))
    /\ UNCHANGED << sx, sy, n_steps, ui >>

NextBoundary == InitLineOnBoundary \/ SplitEdge \/ CollapseEdge

SpecBoundary == Init /\ [][NextBoundary]_vars

\* ------------------------------------------------- the window's callbacks
\* GTK runs the callbacks one at a time on the main loop. A drag gesture
\* emits drag_begin, then drag_update any number of times, then drag_end; a
\* key press can arrive at any point, also while the button is held.
MaxTime == 100
MaxVerts == 3
MaxShapes == 2

\* ms between two looks at the clock
Tick == MinGap \div 2

\* positions and offsets of the pointer, in pixels
DragStarts == { << 100, 100 >>, << 300, 200 >> }
DragOffsets == { << 0, 0 >>, << 10, 0 >>, << 30, 0 >>, << 30, 40 >> }

\* gesture.offset(): None, or Some offset from the start of the drag
None == << >>
GestureOffsets == DragOffsets \cup { None }

Keys == { "BackSpace", "Meta+q", "a" }

UiRunning == app = "running"

Elapse ==
    /\ UiRunning /\ now + Tick <= MaxTime
    /\ now' = now + Tick
    /\ UNCHANGED << segments, sx, sy, n_steps, last, CURRENT_SHAPE, ALL_SHAPES,
                    DRAG_LAST_UPDATE, gesture_active, app >>

drag_begin ==
    /\ UiRunning /\ ~gesture_active
    /\ \E p \in DragStarts : CURRENT_SHAPE' = Shape_from_pos(p[1], p[2])
    /\ gesture_active' = TRUE
    /\ UNCHANGED << segments, sx, sy, n_steps, last, ALL_SHAPES,
                    DRAG_LAST_UPDATE, now, app >>

drag_update ==
    /\ UiRunning /\ gesture_active
    /\ Len(CURRENT_SHAPE.verticies) < MaxVerts
    /\ IF now - DRAG_LAST_UPDATE < MinGap
       THEN UNCHANGED << CURRENT_SHAPE, DRAG_LAST_UPDATE, app >>
       ELSE /\ DRAG_LAST_UPDATE' = now
            /\ \E offset \in GestureOffsets :
                  IF offset = None
                  THEN UNCHANGED << CURRENT_SHAPE, app >>
                  ELSE IF CURRENT_SHAPE.verticies = << >>
                  \* last_offset: .last().unwrap() of an empty list
                  THEN app' = "panicked" /\ UNCHANGED CURRENT_SHAPE
                  ELSE LET last_offset ==
                               CURRENT_SHAPE.verticies[Len(CURRENT_SHAPE.verticies)]
                           dist_to_last == dist2(PosOffset_sub(offset, last_offset))
                       IN /\ CURRENT_SHAPE' =
                                IF dist_to_last < Near2 THEN CURRENT_SHAPE
                                ELSE next_vertex_at(CURRENT_SHAPE, offset)
                          /\ UNCHANGED app
    /\ UNCHANGED << segments, sx, sy, n_steps, last, ALL_SHAPES, now,
                    gesture_active >>

drag_end ==
    /\ UiRunning /\ gesture_active
    /\ Len(ALL_SHAPES) < MaxShapes
    /\ gesture_active' = FALSE
    /\ \E offset \in GestureOffsets :
          IF offset = None
          THEN UNCHANGED << CURRENT_SHAPE, ALL_SHAPES >>
          ELSE /\ CURRENT_SHAPE' = next_vertex_at(CURRENT_SHAPE, offset)
               /\ ALL_SHAPES' = Append(ALL_SHAPES, CURRENT_SHAPE')
    /\ UNCHANGED << segments, sx, sy, n_steps, last, DRAG_LAST_UPDATE, now, app >>

cb_key_pressed ==
    /\ UiRunning
    /\ \E keyval \in Keys :
          IF keyval = "Meta+q"
          THEN app' = "quit" /\ UNCHANGED << CURRENT_SHAPE, ALL_SHAPES >>
          ELSE IF keyval = "BackSpace"
          THEN /\ ALL_SHAPES' = << >>
               /\ CURRENT_SHAPE' = Shape_new
               /\ UNCHANGED app
          ELSE UNCHANGED << CURRENT_SHAPE, ALL_SHAPES, app >>
    /\ UNCHANGED << segments, sx, sy, n_steps, last, DRAG_LAST_UPDATE, now,
                    gesture_active >>

NextUI == Elapse \/ drag_begin \/ drag_update \/ drag_end \/ cb_key_pressed

SpecUI == Init /\ [][NextUI]_vars

\* ------------------------------------------------------------- properties
\* the ends of live edges, in the edge table ev, that are vertex v
EdgeEnds(m, v) ==
    { i \in 0 .. 2 * m.e_num - 1 : m.ev[i] = v /\ (i \div 2) \in LiveEdges(m) }

\* the live edges of the edge table that join a and b, either way round
EdgesJoining(m, a, b) ==
    { e \in LiveEdges(m) : \/ m.ev[2 * e] = a /\ m.ev[2 * e + 1] = b
                           \/ m.ev[2 * e] = b /\ m.ev[2 * e + 1] = a }

\* C1: after any sequence of initializer, split_edge and collapse_edge calls
\* that complete, every live vertex is an endpoint of at most two live edges,
\* counted in the edge table ev (an edge from a vertex to itself counts twice).
C1_DegreeAtMostTwo ==
    ~segments.panic =>
        \A v \in LiveVertices(segments) : Cardinality(EdgeEnds(segments, v)) <= 2

\* a collapse has completed and left a vertex that is an endpoint of two edges
C1_Witness ==
    /\ last.op = "collapse_edge" /\ last.res = "Ok"
    /\ \E v \in LiveVertices(segments) : Cardinality(EdgeEnds(segments, v)) = 2

\* C2: init_line_segment(points, lock_edges) with n >= 2 points creates n
\* vertices in point order and exactly n-1 edges, one between every pair of
\* consecutive vertices (i, i+1); with lock_edges the first and last vertex
\* are Passive and the interior ones Active, without it all are Active;
\* init_passive_line_segment builds the same chain with all vertices Passive.
C2_LineIsChain ==
    ( /\ last.op \in { "init_line_segment", "init_passive_line_segment" }
      /\ Len(last.pts) >= 2
      /\ last.res = "Ok" ) =>
        LET n == Len(last.pts)
            base == segments.v_num - n
        IN /\ Cardinality(LiveVertices(segments)) = last.nv + n
           /\ \A i \in 1 .. n :
                 /\ segments.x[base + i - 1] = last.pts[i][1]
                 /\ segments.y[base + i - 1] = last.pts[i][2]
                 /\ segments.va[base + i - 1] =
                       IF last.op = "init_passive_line_segment" THEN Passive
                       ELSE IF last.lock /\ i \in { 1, n } THEN Passive
                       ELSE Active
           /\ Cardinality(LiveEdges(segments)) = last.ne + n - 1
           /\ \A i \in 0 .. n - 2 :
                 Cardinality(EdgesJoining(segments, base + i, base + i + 1)) = 1

\* C3: init_circle_segment and its passive variant with k >= 3 angles create
\* k vertices and exactly k live edges, one between every pair of consecutive
\* vertices and one between the last and the first, so that every vertex of
\* the segment has exactly two incident edges.
C3_CircleIsLoop ==
    ( /\ last.op \in { "init_circle_segment", "init_passive_circle_segment" }
      /\ Len(last.pts) >= 3
      /\ last.res = "Ok" ) =>
        LET k == Len(last.pts)
            base == segments.v_num - k
        IN /\ Cardinality(LiveVertices(segments)) = last.nv + k
           /\ Cardinality(LiveEdges(segments)) = last.ne + k
           /\ \A i \in 0 .. k - 1 :
                 /\ Cardinality(EdgesJoining(segments, base + i,
                                             base + ((i + 1) % k))) = 1
                 /\ Cardinality(EdgeEnds(segments, base + i)) = 2

\* c is the midpoint of a and b, to the unit
IsMid(c, a, b) == a + b - 1 <= 2 * c /\ 2 * c <= a + b

\* vertex v has the same position, status and segment in m and n
SameVertex(m, n, v) ==
    /\ n.x[v] = m.x[v] /\ n.y[v] = m.y[v]
    /\ n.va[v] = m.va[v] /\ n.vs[v] = m.vs[v]

\* edge e has the same endpoints in m and n
SameEdge(m, n, e) ==
    n.ev[2 * e] = m.ev[2 * e] /\ n.ev[2 * e + 1] = m.ev[2 * e + 1]

\* edge e is tombstoned in m
Tombstoned(m, e) == m.ev[2 * e] = -1 /\ m.ev[2 * e + 1] = -1

\* C4: a successful split_edge(e, min_len) on the live edge e = (v1, v2)
\* tombstones e, adds exactly one new Active vertex at the midpoint of v1 and
\* v2 carrying v1's segment id, and adds exactly the edges (v1, new) and
\* (v2, new); every other vertex and edge is unchanged, so the numbers of live
\* vertices and of live edges each grow by one per split (splitting each of E
\* edges once adds E vertices and doubles the live edges).
C4_SplitEffect ==
    [][ (last'.op = "split_edge" /\ last'.res = "Ok") =>
          LET m == segments
              n == segments'
              e == last'.e
              v1 == last'.v1
              v2 == last'.v2
              new == segments.v_num
          IN /\ e \in LiveEdges(m) /\ Tombstoned(n, e)
             /\ n.v_num = m.v_num + 1
             /\ n.va[new] = Active /\ n.vs[new] = m.vs[v1]
             /\ IsMid(n.x[new], m.x[v1], m.x[v2])
             /\ IsMid(n.y[new], m.y[v1], m.y[v2])
             /\ \A v \in 0 .. m.v_num - 1 : SameVertex(m, n, v)
             /\ n.e_num = m.e_num + 2
             /\ n.ev[2 * m.e_num] = v1 /\ n.ev[2 * m.e_num + 1] = new
             /\ n.ev[2 * m.e_num + 2] = v2 /\ n.ev[2 * m.e_num + 3] = new
             /\ \A f \in (0 .. m.e_num - 1) \ { e } : SameEdge(m, n, f)
             /\ Cardinality(LiveVertices(n)) = Cardinality(LiveVertices(m)) + 1
             /\ Cardinality(LiveEdges(n)) = Cardinality(LiveEdges(m)) + 1
      ]_vars

\* the only edge of a mesh has been split: two live edges, one more vertex
C4_Witness ==
    /\ last.op = "split_edge" /\ last.res = "Ok" /\ last.ne = 1
    /\ Cardinality(LiveEdges(segments)) = 2
    /\ Cardinality(LiveVertices(segments)) = last.nv + 1
    /\ segments.y[segments.v_num - 1] # segments.y[last.v1]

\* C5: a completed collapse_edge(e, max_len) on e = (v1, v2), where
\* e2 = (v1, v3) is the other edge incident to v1, tombstones e and e2,
\* tombstones v1 and removes it from the zone index, moves v2 to the midpoint
\* of the previous positions of v1 and v2 and adds exactly one edge (v3, v2);
\* the numbers of live vertices and live edges each decrease by one and every
\* other vertex and edge is unchanged.
C5_CollapseEffect ==
    [][ (last'.op = "collapse_edge" /\ last'.res = "Ok") =>
          LET m == segments
              n == segments'
              e == last'.e
              v1 == last'.v1
              v2 == last'.v2
          IN \E e2 \in LiveEdges(m) \ { e } :
                /\ m.ev[2 * e2] = v1 \/ m.ev[2 * e2 + 1] = v1
                /\ LET v3 == IF m.ev[2 * e2] = v1 THEN m.ev[2 * e2 + 1]
                                                  ELSE m.ev[2 * e2]
                   IN /\ e \in LiveEdges(m)
                      /\ Tombstoned(n, e) /\ Tombstoned(n, e2)
                      /\ m.va[v1] > -1 /\ n.va[v1] = -1
                      /\ n.zone_map.vz[v1] = -1
                      /\ \A z \in DOMAIN n.zone_map.z :
                            \A i \in 1 .. Len(n.zone_map.z[z].zv) :
                               n.zone_map.z[z].zv[i] # v1
                      /\ IsMid(n.x[v2], m.x[v1], m.x[v2])
                      /\ IsMid(n.y[v2], m.y[v1], m.y[v2])
                      /\ n.va[v2] = m.va[v2] /\ n.vs[v2] = m.vs[v2]
                      /\ n.v_num = m.v_num
                      /\ \A v \in (0 .. m.v_num - 1) \ { v1, v2 } :
                            SameVertex(m, n, v)
                      /\ n.e_num = m.e_num + 1
                      /\ n.ev[2 * m.e_num] = v3 /\ n.ev[2 * m.e_num + 1] = v2
                      /\ \A f \in (0 .. m.e_num - 1) \ { e, e2 } :
                            SameEdge(m, n, f)
                      /\ Cardinality(LiveVertices(n)) =
                            Cardinality(LiveVertices(m)) - 1
                      /\ Cardinality(LiveEdges(n)) =
                            Cardinality(LiveEdges(m)) - 1
      ]_vars

\* a collapse has completed and its new edge joins two different vertices
C5_Witness ==
    /\ last.op = "collapse_edge" /\ last.res = "Ok"
    /\ segments.va[last.v1] = -1
    /\ segments.ev[2 * segments.e_num - 1] = last.v2
    /\ segments.ev[2 * segments.e_num - 2] # last.v2
    /\ Cardinality(LiveEdges(segments)) = last.ne - 1

\* C6: starting from an edge (v1, v2), split_edge followed immediately by
\* collapse_edge (with no maximum length) on either of the two resulting
\* half-edges completes (the edge table having room for the new edge), leaves
\* v1 and v2 both live and joined by a single edge, and leaves the numbers of
\* live vertices and live edges what they were before the split.
C6_SplitThenCollapse ==
    [][ ( /\ last.op = "split_edge" /\ last.res = "Ok"
          /\ last'.op = "collapse_edge" /\ last'.len <= 0
          /\ last'.e \in { segments.e_num - 2, segments.e_num - 1 }
          /\ segments.e_num < segments.n_max ) =>
          /\ last'.res = "Ok"
          /\ segments'.va[last.v1] > -1 /\ segments'.va[last.v2] > -1
          /\ Cardinality(EdgesJoining(segments', last.v1, last.v2)) = 1
          /\ Cardinality(LiveVertices(segments')) = last.nv
          /\ Cardinality(LiveEdges(segments')) = last.ne
      ]_vars

C8_CollapseHalts ==
    [][ (last'.op = "collapse_edge" /\ last'.e \in LiveEdges(segments)) =>
          LET m == segments
              v1 == last'.v1
              v2 == last'.v2
              max_len == last'.len
              dx == m.x[v1] - m.x[v2]
              dy == m.y[v1] - m.y[v2]
              inactive == m.va[v1] # Active \/ m.va[v2] # Active
              too_long == max_len > 0 /\ dx * dx + dy * dy > max_len * max_len
          IN /\ (inactive \/ too_long) =>
                   /\ last'.res = "panic"
                   /\ segments' = [segments EXCEPT !.panic = TRUE]
             /\ (max_len <= 0 /\ last'.res = "panic") =>
                   \/ inactive
                   \/ Cardinality(EdgeEnds(m, v1)) < 2
                   \/ v1 = v2
                   \/ m.e_num >= m.n_max
      ]_vars

\* a collapse has halted on an edge between two Active vertices that is
\* longer than the limit given, and the mesh is as it was
C8_Witness ==
    /\ last.op = "collapse_edge" /\ last.res = "panic" /\ last.len > 0
    /\ last.e \in LiveEdges(segments)
    /\ segments.va[last.v1] = Active /\ segments.va[last.v2] = Active
    /\ Dist2(segments, last.v1, last.v2) > last.len * last.len
    /\ Cardinality(EdgeEnds(segments, last.v1)) = 2

\* C9: in every state reached by initializers, split/collapse and steps,
\* every live vertex has both coordinates in [0, 1].
C9_LiveInUnitSquare ==
    ~segments.panic =>
        \A v \in LiveVertices(segments) :
            /\ 0 <= segments.x[v] /\ segments.x[v] <= U
            /\ 0 <= segments.y[v] /\ segments.y[v] <= U

\* the margins safe_vertex_positions is asked about: none, the one steps
\* passes, and a wide one
Margins == { 0, 3 * STEP, 20 * ONE }

\* C10: safe_vertex_positions(margin) is true if and only if every live
\* vertex has both coordinates in [margin, 1 - margin]; deleted vertices are
\* not considered.
C10_SafeIffLiveInside ==
    ~segments.panic =>
        \A margin \in Margins :
            safe_vertex_positions(segments, margin) <=>
                \A v \in LiveVertices(segments) :
                    /\ margin <= segments.x[v] /\ segments.x[v] <= U - margin
                    /\ margin <= segments.y[v] /\ segments.y[v] <= U - margin

CellOf(m, v) == << (m.x[v] * m.nz) \div U, (m.y[v] * m.nz) \div U >>

\* C12: the zone recorded for a vertex at (x, y) is the cell
\* (floor(x * nz), floor(y * nz)) of the nz x nz grid, so two vertices whose
\* coordinates fall in different cells are recorded in different zones, and
\* the cell sphere_vertices looks up for the query vertex is that same cell.
C12_ZoneIsGridCell ==
    ~segments.panic =>
        \A v \in LiveVertices(segments) :
            /\ segments.zone_map.vz[v] =
                  segments.nz * CellOf(segments, v)[1] + CellOf(segments, v)[2]
            /\ SphereZone(segments.zone_map, segments.x[v], segments.y[v]) =
                  CellOf(segments, v)
            /\ \A w \in LiveVertices(segments) :
                  CellOf(segments, v) # CellOf(segments, w) =>
                     segments.zone_map.vz[v] # segments.zone_map.vz[w]

\* the radii sphere_vertices is asked about, none above one cell width
Radii == { r \in { 16 * ONE, 20 * ONE } : r <= ZoneWidth }

\* the ids of sequence q
Range(q) == { q[i] : i \in 1 .. Len(q) }

\* C13: when radius <= one cell width, sphere_vertices(v, radius) returns
\* every indexed non-deleted vertex whose distance from v is at most radius
\* (no false negatives), v itself possibly included.
C13_SphereNoFalseNegative ==
    ~segments.panic =>
        \A rad \in Radii : \A v \in LiveVertices(segments) :
            \A w \in LiveVertices(segments) :
                Dist2(segments, v, w) <= rad * rad =>
                    w \in Range(sphere_vertices(segments.zone_map, v,
                                                segments.x, segments.y, rad))

\* the places of id v in the cell lists of zone map zm: << cell, position >>
Places(zm, v) ==
    { p \in (DOMAIN zm.z) \X (1 .. zm.v_num) :
         p[2] <= Len(zm.z[p[1]].zv) /\ zm.z[p[1]].zv[p[2]] = v }

\* C14: after any sequence of ZoneMap add_vertex / delete_vertex /
\* update_vertex calls, each non-deleted vertex id appears exactly once in
\* exactly one cell list, namely the cell recorded for it, and a deleted id
\* appears in no cell list and has its mapping marked absent (-1); in
\* particular add_vertex(id, ...) records the id it was passed.
C14_ZoneListsMatchIds ==
    ~segments.panic =>
        \A v \in DOMAIN segments.va :
            IF segments.va[v] > -1
            THEN /\ Cardinality(Places(segments.zone_map, v)) = 1
                 /\ \A p \in Places(segments.zone_map, v) :
                       p[1] = segments.zone_map.vz[v]
            ELSE /\ Places(segments.zone_map, v) = { }
                 /\ segments.zone_map.vz[v] = -1

\* the counters and every stored id are within the pre-sized arrays
InCapacity(m) ==
    /\ m.v_num <= m.n_max /\ m.e_num <= m.n_max
    /\ DOMAIN m.x = 0 .. m.n_max - 1 /\ DOMAIN m.y = 0 .. m.n_max - 1
    /\ DOMAIN m.va = 0 .. m.n_max - 1 /\ DOMAIN m.vs = 0 .. m.n_max - 1
    /\ DOMAIN m.ev = 0 .. 2 * m.n_max - 1 /\ DOMAIN m.ve = 0 .. 2 * m.n_max - 1
    /\ \A i \in DOMAIN m.ev : m.ev[i] < m.n_max
    /\ \A i \in DOMAIN m.ve : m.ve[i] < m.n_max

\* the edges split_long_edges(limit) is to split on mesh m: live, with an
\* Active endpoint, longer than limit
LongEdges(m, limit) ==
    { e \in LiveEdges(m) :
        /\ m.va[m.ev[2 * e]] = Active \/ m.va[m.ev[2 * e + 1]] = Active
        /\ Dist2(m, m.ev[2 * e], m.ev[2 * e + 1]) > limit * limit }

\* the vertices and the edges the call recorded in c creates on mesh m when it
\* runs to its end: a line of n points makes n vertices and n / 2 edges, a
\* circle one edge more, a split one vertex and two edges (split_long_edges
\* as many times as it has edges to split), a collapse one edge
Creates(m, c) ==
    CASE c.op \in {"init_line_segment", "init_passive_line_segment"} ->
           << Len(c.pts), Len(c.pts) \div 2 >>
      [] c.op \in {"init_circle_segment", "init_passive_circle_segment"} ->
           << Len(c.pts), Len(c.pts) \div 2 + 1 >>
      [] c.op = "split_edge" ->
           IF c.v1 > -1 /\ m.vs[c.v1] >= 0 THEN << 1, 2 >> ELSE << 0, 0 >>
      [] c.op = "split_long_edges" ->
           << Cardinality(LongEdges(m, c.len)),
              2 * Cardinality(LongEdges(m, c.len)) >>
      [] c.op = "collapse_edge" -> << 0, 1 >>
      [] OTHER -> << 0, 0 >>

\* C15: in every reachable state v_num <= n_max, e_num <= n_max and every
\* vertex or edge id stored in the mesh is below n_max, and a call that would
\* create a vertex or an edge beyond the capacity halts instead of completing.
C15_CapacityRespected ==
    [][ /\ InCapacity(segments')
        /\ (\/ segments.v_num + Creates(segments, last')[1] > segments.n_max
            \/ segments.e_num + Creates(segments, last')[2] > segments.n_max)
           => segments'.panic /\ last'.res = "panic" ]_vars

\* a collapse of a live edge on a full edge table: it halted in add_edge, after
\* it had deleted the edge, with valid endpoints for the new edge
C15_Witness ==
    /\ last.op = "collapse_edge" /\ last.res = "panic"
    /\ segments.e_num = segments.n_max
    /\ last.v1 > -1 /\ segments.ev[2 * last.e] = -1
    /\ segments.va[last.v2] > -1

\* C16: in every reachable state no live edge has a deleted vertex as an
\* endpoint, and both endpoints of a live edge are ids of created vertices.
C16_NoEdgeOnDeletedVertex ==
    \A e \in LiveEdges(segments) : \A i \in {2 * e, 2 * e + 1} :
        /\ 0 <= segments.ev[i] /\ segments.ev[i] < segments.v_num
        /\ segments.va[segments.ev[i]] > -1

\* a collapse has completed: its first endpoint is deleted, and the edge it
\* added joins vertices that are not deleted
C16_Witness ==
    /\ last.op = "collapse_edge" /\ last.res = "Ok"
    /\ segments.va[last.v1] = -1
    /\ LiveEdges(segments) # {}
    /\ \E v \in LiveVertices(segments) : EdgeEnds(segments, v) # {}

\* C17: optimize_position changes only the coordinates of Active vertices and
\* their zone: the coordinates and the zone of every Passive or Deleted vertex,
\* every status and segment id, the edge table, the incident-edge slots, v_num,
\* e_num and s_num are as they were before the call.
C17_OptimizeMovesOnlyActive ==
    [][ last'.op = "optimize_position" =>
          /\ \A v \in DOMAIN segments.va :
                segments.va[v] # Active =>
                  /\ segments'.x[v] = segments.x[v]
                  /\ segments'.y[v] = segments.y[v]
                  /\ segments'.zone_map.vz[v] = segments.zone_map.vz[v]
          /\ segments'.va = segments.va /\ segments'.vs = segments.vs
          /\ segments'.ev = segments.ev /\ segments'.ve = segments.ve
          /\ segments'.v_num = segments.v_num
          /\ segments'.e_num = segments.e_num
          /\ segments'.s_num = segments.s_num ]_vars

\* optimize_position has completed on a mesh where an Active vertex was
\* displaced and a Passive vertex with edges had vertices within far_l
C17_Witness ==
    /\ last.op = "optimize_position" /\ last.res = "Ok"
    /\ \E v \in LiveVertices(segments) :
          segments.va[v] = Active /\ (sx[v] # 0 \/ sy[v] # 0)
    /\ \E w \in LiveVertices(segments) :
          /\ segments.va[w] = Passive /\ EdgeEnds(segments, w) # {}
          /\ \E u \in LiveVertices(segments) :
                /\ Dist2(segments, u, w) > 0
                /\ Dist2(segments, u, w) <= FAR_L * FAR_L

GrowthCandidates(m) ==
    { e \in LiveEdges(m) : EdgeLen2(m, e) >= NEAR_L * NEAR_L }

\* C19: a mesh with a live edge at or above the growth threshold can gain a
\* vertex in a step: when steps can run to its end on a mesh that has such an
\* edge and room for one more vertex and two more edges, some outcome of the
\* call has more vertices than before.
C19_GrowthCanSplit ==
    /\ GrowthCandidates(segments) # {}
    /\ segments.v_num < segments.n_max
    /\ segments.e_num + 2 <= segments.n_max
    /\ ENABLED (Steps /\ last'.res # "panic")
    => ENABLED (Steps /\ segments'.v_num > segments.v_num)

\* in n, edge e of m is gone and one vertex created since m sits at the middle
\* of its ends, joined to each end by one live edge created since m
SplitOnce(m, n, e) ==
    LET a == m.ev[2 * e]
        b == m.ev[2 * e + 1]
        mids == { w \in m.v_num .. n.v_num - 1 :
                    /\ IsMid(n.x[w], m.x[a], m.x[b])
                    /\ IsMid(n.y[w], m.y[a], m.y[b])
                    /\ \E f, g \in m.e_num .. n.e_num - 1 :
                          /\ f # g
                          /\ n.ev[2 * f] = a /\ n.ev[2 * f + 1] = w
                          /\ n.ev[2 * g] = b /\ n.ev[2 * g + 1] = w }
    IN Tombstoned(n, e) /\ mids # {}

\* C20: a completed split_long_edges(limit) has split, once each, exactly the
\* edges that were live when it started, had an Active endpoint and were
\* longer than limit: every such edge is replaced by two edges to a new
\* midpoint vertex, every other edge is as it was, and no edge created during
\* the call has been split.
C20_SplitLongEdgesEffect ==
    [][ (last'.op = "split_long_edges" /\ last'.res = "Ok") =>
          LET m == segments
              n == segments'
              long == LongEdges(m, last'.len)
          IN /\ \A e \in long : SplitOnce(m, n, e)
             /\ \A e \in (0 .. m.e_num - 1) \ long : SameEdge(m, n, e)
             /\ \A v \in 0 .. m.v_num - 1 : SameVertex(m, n, v)
             /\ n.v_num = m.v_num + Cardinality(long)
             /\ n.e_num = m.e_num + 2 * Cardinality(long)
             /\ \A f \in m.e_num .. n.e_num - 1 : f \in LiveEdges(n)
      ]_vars

\* a call has split two edges and left a third, live one as it was; the four
\* edges it created are live and longer than the limit
C20_Witness ==
    /\ last.op = "split_long_edges" /\ last.res = "Ok"
    /\ Cardinality(LiveVertices(segments)) = last.nv + 2
    /\ Cardinality(LiveEdges(segments)) = last.ne + 2
    /\ \E e \in LiveEdges(segments) : 2 * e + 8 < 2 * segments.e_num
    /\ \A f \in segments.e_num - 4 .. segments.e_num - 1 :
          f \in LongEdges(segments, last.len)

\* the live vertices of m that live edges join to a vertex of set s
Joined(m, s) ==
    { w \in LiveVertices(m) :
        \E e \in LiveEdges(m) : \E v \in s :
            \/ m.ev[2 * e] = v /\ m.ev[2 * e + 1] = w
            \/ m.ev[2 * e] = w /\ m.ev[2 * e + 1] = v }

\* the live vertices of m connected to a vertex of set s by live edges
RECURSIVE Component(_, _)
Component(m, s) ==
    IF Joined(m, s) \subseteq s THEN s ELSE Component(m, s \cup Joined(m, s))

\* the live mesh is exactly one closed loop of three or more vertices: as
\* many live edges as live vertices, none from a vertex to itself, two edge
\* ends at every live vertex, and all live vertices connected
IsSingleLoop(m) ==
    /\ Cardinality(LiveVertices(m)) >= 3
    /\ Cardinality(LiveEdges(m)) = Cardinality(LiveVertices(m))
    /\ \A e \in LiveEdges(m) : m.ev[2 * e] # m.ev[2 * e + 1]
    /\ \A v \in LiveVertices(m) : Cardinality(EdgeEnds(m, v)) = 2
    /\ \A v \in LiveVertices(m) : Component(m, { v }) = LiveVertices(m)

\* C21: when the live mesh is exactly one closed loop of n vertices, both
\* sorted-vertices traversals, called with a buffer of n entries, return n
\* entries, every live vertex exactly once, each joined by a live edge to the
\* next and the last to the first (the coordinates variant: the positions of
\* those vertices in that order).
C21_SortedVerticesIsLoopOrder ==
    (~segments.panic /\ IsSingleLoop(segments)) =>
        LET n == Cardinality(LiveVertices(segments))
            r == np_get_sorted_vertices(segments, n)
            c == np_get_sorted_vertex_coordinates(segments, n)
        IN /\ r.res = "Ok" /\ r.n = n /\ Len(r.buf) = n
           /\ Range(r.buf) = LiveVertices(segments)
           /\ \A i \in 1 .. n :
                EdgesJoining(segments, r.buf[i], r.buf[(i % n) + 1]) # {}
           /\ c.res = "Ok" /\ c.n = n
           /\ c.buf = [i \in 1 .. n |->
                         << segments.x[r.buf[i]], segments.y[r.buf[i]] >>]

\* the radii of the sphere_vertices queries examined: far_l, as
\* optimize_position asks, and one that covers the whole square
QueryRadii == { FAR_L, 2 * U }

\* C22: in every reachable state get_max_sphere_count() is at least the
\* number of ids any sphere_vertices query writes in that state, whatever the
\* vertex asked about and the radius.
C22_SphereCountBound ==
    ~segments.panic =>
        \A v \in 0 .. segments.v_num - 1 : \A rad \in QueryRadii :
            Len(sphere_vertices(segments.zone_map, v, segments.x, segments.y,
                                rad))
                <= get_max_sphere_count(segments.zone_map)

\* a zone list has outgrown its initial size, its size has been doubled, and
\* a query returns more ids than the initial size of a list
C22_Witness ==
    /\ ~segments.panic
    /\ \E z \in DOMAIN segments.zone_map.z :
          /\ Len(segments.zone_map.z[z].zv) > ZoneSIZE
          /\ segments.zone_map.z[z].size > ZoneSIZE
    /\ \E v \in LiveVertices(segments) :
          Len(sphere_vertices(segments.zone_map, v, segments.x, segments.y,
                              2 * U)) > ZoneSIZE

\* the sum of the contributions of the ids of sequence q, from position k on
RECURSIVE SumContributions(_, _, _, _, _, _, _)
SumContributions(m, v, q, k, step, near_l, far_l) ==
    IF k > Len(q) THEN << 0, 0 >>
    ELSE LET c == Contribution(m, v, q[k], step, near_l, far_l)
             rest == SumContributions(m, v, q, k + 1, step, near_l, far_l)
         IN << c[1] + rest[1], c[2] + rest[2] >>

\* the neighbours optimize_position hands to reject for v on mesh m
Neighbors(m, v) == sphere_vertices(m.zone_map, v, m.x, m.y, FAR_L)

\* C23: the displacement a completed optimize_position applies to an Active
\* vertex v is the sum, over the neighbours returned for v, of each
\* neighbour's single attraction or repulsion contribution.
C23_DisplacementIsSum ==
    [][ (last'.op = "optimize_position" /\ last'.res = "Ok") =>
          \A v \in LiveVertices(segments) :
              segments.va[v] = Active =>
                  LET sum == SumContributions(segments, v,
                                              Neighbors(segments, v), 1,
                                              STEP, NEAR_L, FAR_L)
                  IN /\ sx'[v] = sum[1] /\ sy'[v] = sum[2]
                     /\ segments'.x[v] = segments.x[v] + sum[1]
                     /\ segments'.y[v] = segments.y[v] + sum[2]
      ]_vars

\* the displacement of length step from v straight toward u
Toward(m, v, u, step) ==
    << Quot(step * (m.x[u] - m.x[v]), Hypot(m.x[u] - m.x[v], m.y[u] - m.y[v])),
       Quot(step * (m.y[u] - m.y[v]), Hypot(m.x[u] - m.x[v], m.y[u] - m.y[v])) >>

\* what v receives from u in one optimize_position: the term of reject when
\* the query made for v returns u, nothing when it does not
Received(m, v, u) ==
    IF u \in Range(Neighbors(m, v))
    THEN Contribution(m, v, u, STEP, NEAR_L, FAR_L)
    ELSE << 0, 0 >>

\* the Active vertices of m whose two incident-edge slots are both taken
Solvable(m) ==
    { v \in LiveVertices(m) :
        m.va[v] = Active /\ m.ve[2 * v] > -1 /\ m.ve[2 * v + 1] > -1 }

\* C24: an Active vertex v receives from a linked neighbour u at distance d
\* an attraction of magnitude step directed from v toward u for every
\* d > near_l, and nothing for d <= near_l (d = near_l and d = 0 included).
C24_LinkedAttraction ==
    ~segments.panic =>
        \A v \in Solvable(segments) : \A u \in Linked(segments, v) :
            Received(segments, v, u) =
                IF Dist2(segments, v, u) > NEAR_L * NEAR_L
                THEN Toward(segments, v, u, STEP)
                ELSE << 0, 0 >>

\* the live vertices of m that are not linked to v and are not v
Unlinked(m, v) == (LiveVertices(m) \ Linked(m, v)) \ { v }

\* step * (far_l / d - 1) * (v - u), the repulsion of v by u at distance d
Repulsion(m, v, u, step, far_l) ==
    LET d == Hypot(m.x[v] - m.x[u], m.y[v] - m.y[u])
    IN << Quot(step * (m.x[v] - m.x[u]) * (far_l - d), d * U),
          Quot(step * (m.y[v] - m.y[u]) * (far_l - d), d * U) >>

DisplacementAt(m, v) ==
    Let(reject([m |-> m, sx |-> [w \in DOMAIN sx |-> 0],
                sy |-> [w \in DOMAIN sy |-> 0]],
               v, Neighbors(m, v), STEP, NEAR_L, FAR_L),
        LAMBDA d : << d.sx[v], d.sy[v] >>)

\* C26: a completed optimize_position moves every vertex that is not deleted
\* by the displacement computed for it from the positions all vertices had
\* when the call started, whatever was computed or moved before it in the
\* call, and leaves each recorded zone equal to the zone of the new position.
C26_ComputedFromStartPositions ==
    [][ (last'.op = "optimize_position" /\ last'.res = "Ok") =>
          \A v \in LiveVertices(segments) :
              /\ sx'[v] = DisplacementAt(segments, v)[1]
              /\ sy'[v] = DisplacementAt(segments, v)[2]
              /\ segments'.x[v] = segments.x[v] + DisplacementAt(segments, v)[1]
              /\ segments'.y[v] = segments.y[v] + DisplacementAt(segments, v)[2]
              /\ segments'.zone_map.vz[v] =
                     get_z(segments'.zone_map, segments'.x[v], segments'.y[v])
      ]_vars

\* optimize_position has displaced two vertices that were within far_l of
\* each other when it started
C26_Witness ==
    /\ last.op = "optimize_position" /\ last.res = "Ok"
    /\ \E v, u \in LiveVertices(segments) :
          /\ v # u
          /\ sx[v] # 0 \/ sy[v] # 0
          /\ sx[u] # 0 \/ sy[u] # 0
          /\ Dist2([segments EXCEPT !.x[v] = @ - sx[v], !.y[v] = @ - sy[v],
                                    !.x[u] = @ - sx[u], !.y[u] = @ - sy[u]],
                   v, u) < FAR_L * FAR_L

\* edge e of m has, at each of its two ends, a live edge other than itself
ConnectedBothSides(m, e) ==
    \A i \in {2 * e, 2 * e + 1} :
        \E f \in LiveEdges(m) \ { e } :
            m.ev[2 * f] = m.ev[i] \/ m.ev[2 * f + 1] = m.ev[i]

\* C27: get_edge_curvature(e) on a live edge halts whenever e has no
\* neighbouring edge at one of its ends and whenever the value it computes is
\* not positive, and otherwise returns a strictly positive value.
C27_CurvatureHaltsOrPositive ==
    ~segments.panic =>
        \A e \in LiveEdges(segments) :
            LET r == get_edge_curvature(segments, e)
            IN /\ ~ConnectedBothSides(segments, e) => r.res = "panic"
               /\ r.res = "Ok" => r.t2 > 0
               /\ (ConnectedBothSides(segments, e) /\ r.res = "panic")
                     => r.t2 = 0

\* the ids held by the two incident-edge slots of v
SlotEdges(m, v) == { m.ve[i] : i \in {2 * v, 2 * v + 1} } \ { -1 }

\* the live edges that have v as an endpoint
IncidentEdges(m, v) ==
    { e \in LiveEdges(m) : m.ev[2 * e] = v \/ m.ev[2 * e + 1] = v }

\* C28: in every mesh the operations produce without halting, the two
\* incident-edge slots of a live vertex hold exactly the live edges ending at
\* it, slot 1 is used only when slot 0 is, and add_e_to_ve has never written
\* over an occupied slot.
C28_IncidentSlotsExact ==
    ~segments.panic =>
        /\ \A v \in LiveVertices(segments) :
              /\ SlotEdges(segments, v) = IncidentEdges(segments, v)
              /\ segments.ve[2 * v + 1] >= 0 => segments.ve[2 * v] >= 0
        /\ ~segments.overwrote

C28_Witness ==
    /\ ~segments.panic
    /\ last.op = "collapse_edge"
    /\ \E v \in LiveVertices(segments) : segments.ve[2 * v + 1] >= 0
    /\ \E v \in LiveVertices(segments) :
          segments.ve[2 * v] >= 0 /\ segments.ve[2 * v + 1] < 0

\* the Active vertices of m with fewer than two incident edges
OpenActive(m) ==
    { v \in LiveVertices(m) : m.va[v] >= 1 /\ m.ve[2 * v + 1] < 0 }

\* C29: optimize_position, called on any mesh the initializers, split_edge and
\* collapse_edge have produced, completes without halting, also when an Active
\* vertex of the mesh has fewer than two incident edges.
C29_OptimizeCompletes ==
    [][ last'.op = "optimize_position" => last'.res = "Ok" ]_vars

\* the guards of collapse_edge pass for edge e of m: e is a live edge, both
\* its endpoints are Active and its length is within max_len
Collapsible(m, e, max_len) ==
    /\ EdgeInArray(m, e) /\ edge_exists(m, e)
    /\ m.va[m.ev[2 * e]] >= 1 /\ m.va[m.ev[2 * e + 1]] >= 1
    /\ ~ExceedsMaxLen(m, m.ev[2 * e], m.ev[2 * e + 1], max_len)

\* C30: collapse_edge on a live edge with two Active endpoints and a length
\* within max_len always completes, also when its first endpoint has no other
\* incident edge.
C30_CollapseCompletes ==
    [][ (last'.op = "collapse_edge"
         /\ Collapsible(segments, last'.e, last'.len))
          => last'.res = "Ok" ]_vars

\* the zone get_z computes for (x, y) is a cell of the nz x nz grid
ZoneInGrid(zm, x, y) == get_z(zm, x, y) \in 0 .. zm.nz * zm.nz - 1

\* C31: every position valid_new_vertex accepts, a coordinate of exactly 1.0
\* included, and every midpoint split_edge or collapse_edge has produced, has
\* a zone index in 0 .. nz * nz - 1.
C31_ZoneIndexInGrid ==
    /\ last.op = "init_line_segment" =>
          \A i \in DOMAIN last.pts :
              valid_new_vertex(last.pts[i][1], last.pts[i][2]) =>
                  ZoneInGrid(segments.zone_map, last.pts[i][1], last.pts[i][2])
    /\ ~segments.panic =>
          \A v \in LiveVertices(segments) :
              ZoneInGrid(segments.zone_map, segments.x[v], segments.y[v])

\* C32: whatever the order of drag_begin, drag_update, drag_end and key
\* presses, no drag_update reads the last vertex of a shape without vertices:
\* last_offset never fails.
C32_LastOffsetNeverFails == app # "panicked"

====
